---- MODULE Spec2Model ----
(***************************************************************************)
(* Model of package ginhtmx (src/ginhtmx/ginhtmx.go): a renderer that      *)
(* executes named html/template templates and either writes the            *)
(* concatenated result as it is (HX-Request present) or wraps it in a      *)
(* layout template.                                                        *)
(*                                                                         *)
(* Text is a sequence of tokens; a model value is a record [raw, s] where  *)
(* raw tells a template.HTML value from a plain string.  The gin context   *)
(* and the template engine are collaborators: they are modelled by what    *)
(* the calls made in ginhtmx.go do to them.                                *)
(***************************************************************************)
EXTENDS Integers, Sequences, FiniteSets, TLC

\* longest list of template names passed to one render call
MaxNames == 2

\* number of handlers rendering concurrently on one renderer
NumCalls == 2

\* http.StatusOK
StatusOK == 200

\* status codes a caller passes to RenderWithStatus
Statuses == {200, 404}

\* the *template.Template a renderer is built with: nil or a parsed set
NilTemplate == "nil"
ParsedTemplate == "tmpl"
TemplateRefs == {NilTemplate, ParsedTemplate}

\* value of a request header that is not present
NoHeader == "<absent>"
HeaderValues == {NoHeader, "", "true"}

NoDecorator == "nil"
Decorators == {"AddMessage", "SetContent", "ToggleHxRequest", "ReplaceModel"}

LayoutNames == {"layout", "customlayout", "nolayout"}
ContentKeys == {"Content", "CustomBody"}
\* names callers pass as content templates; "missing" is not defined in the set
TemplateNames == {"hello", "error", "broken", "missing", "layout"}

----------------------------------------------------------------------------
(* html/template, as used through ExecuteTemplate *)

Plain(s) == [raw |-> FALSE, s |-> s]
\* template.HTML(s): text the engine must not escape again
HTML(s) == [raw |-> TRUE, s |-> s]

\* html escaping of one token
EscapeToken(tok) ==
    CASE tok = "<b>" -> "&lt;b&gt;"
      [] tok = "<h1>" -> "&lt;h1&gt;"
      [] tok = "</h1>" -> "&lt;/h1&gt;"
      [] tok = "<div>" -> "&lt;div&gt;"
      [] tok = "</div>" -> "&lt;/div&gt;"
      [] tok = "<p>" -> "&lt;p&gt;"
      [] OTHER -> tok

EscapeString(s) == [k \in 1..Len(s) |-> EscapeToken(s[k])]

\* what {{.key}} writes: nothing for a missing key, the text of a
\* template.HTML value, the escaped text of a plain string
EvalField(data, key) ==
    IF key \notin DOMAIN data THEN <<>>
    ELSE IF data[key].raw THEN data[key].s
    ELSE EscapeString(data[key].s)

\* {{if .key}}: a missing key or an empty string is false
Truthy(data, key) == key \in DOMAIN data /\ data[key].s # <<>>

Text(s) == [op |-> "text", s |-> s]
Field(key) == [op |-> "field", key |-> key]
\* {{.key.First}} on a string or missing value: an execution error
BadField(key) == [op |-> "badfield", key |-> key]
IfField(key, body) == [op |-> "if", key |-> key, body |-> body]

\* the templates of the parsed set
TemplateSet ==
    [ layout |-> << Text("<div>"), Text("Menu"), Text("</div>"),
                    Text("<div>"), Field("Content"), Text("</div>"),
                    Text("<div>"), Text("Footer"), Text("</div>") >>,
      customlayout |-> << Text("<div>"), Text("Menu"), Text("</div>"),
                          Text("<div>"), Field("CustomBody"), Text("</div>"),
                          Text("<div>"), Text("Footer"), Text("</div>") >>,
      hello |-> << Text("<h1>"), Text("Hello, "), Field("Name"), Text("</h1>") >>,
      error |-> << IfField("Message",
                     << Text("<div>"), Field("Message"), Text("</div>") >>) >>,
      broken |-> << Text("<p>"), BadField("Name"), Text("</p>") >> ]

\* executing a node list: the output so far stays written when a node fails
RECURSIVE ExecNodes(_, _)
ExecNodes(nodes, data) ==
    IF nodes = <<>> THEN [out |-> <<>>, err |-> FALSE]
    ELSE LET n == Head(nodes)
             first ==
               CASE n.op = "text" -> [out |-> <<n.s>>, err |-> FALSE]
                 [] n.op = "field" -> [out |-> EvalField(data, n.key), err |-> FALSE]
                 [] n.op = "badfield" -> [out |-> <<>>, err |-> TRUE]
                 [] n.op = "if" -> IF Truthy(data, n.key)
                                   THEN ExecNodes(n.body, data)
                                   ELSE [out |-> <<>>, err |-> FALSE]
         IN IF first.err THEN first
            ELSE LET rest == ExecNodes(Tail(nodes), data)
                 IN [out |-> first.out \o rest.out, err |-> rest.err]

\* (*Template).ExecuteTemplate(w, name, data): what it writes to w and how
\* it ends: a nil receiver panics, an undefined name is an error with
\* nothing written
ExecuteTemplate(t, name, data) ==
    IF t = NilTemplate THEN [out |-> <<>>, err |-> TRUE, panic |-> TRUE]
    ELSE IF name \notin DOMAIN TemplateSet
         THEN [out |-> <<>>, err |-> TRUE, panic |-> FALSE]
         ELSE LET r == ExecNodes(TemplateSet[name], data)
              IN [out |-> r.out, err |-> r.err, panic |-> FALSE]

----------------------------------------------------------------------------
(* gin.H *)

Put(m, k, v) == [x \in (DOMAIN m) \cup {k} |-> IF x = k THEN v ELSE m[x]]

EmptyH == [x \in {} |-> Plain(<<>>)]

\* the models callers pass
Models ==
    { EmptyH,
      Put(EmptyH, "Name", Plain(<<"Jerry">>)),
      Put(EmptyH, "Name", Plain(<<"<b>">>)),
      Put(Put(EmptyH, "Name", Plain(<<"Jerry">>)), "Content", Plain(<<"old">>)) }

----------------------------------------------------------------------------
(* the renderer *)

HtmxConfig(layout, key, dec) ==
    [LayoutTemplateName |-> layout, ContentVariableName |-> key, ModelDecorator |-> dec]

NewHtmxWithConfig(template, config) == [config |-> config, template |-> template]

\* NewHtmx with the content variable under the name of the layout
NewHtmx_layoutAsKey(template) ==
    [config |-> HtmxConfig("layout", "layout", NoDecorator), template |-> template]

NewHtmx(template) ==
    [config |-> HtmxConfig("layout", "Content", NoDecorator), template |-> template]

Configs ==
    { HtmxConfig(l, k, d) :
        l \in LayoutNames, k \in ContentKeys, d \in Decorators \cup {NoDecorator} }

VARIABLES
    htmx,      \* the renderer: [template, config]
    builtBy,   \* the constructor that made it
    st,        \* the render call in progress: frame, gin context, trace
    calls      \* the render calls of concurrent handlers, one frame each

vars == <<htmx, builtBy, st, calls>>

----------------------------------------------------------------------------
(* gin.Context and its response writer, as far as ginhtmx.go uses them *)

\* a fresh exchange: gin's writer starts with status 200 and nothing written
NewContext(header) ==
    [reqHeader |-> header, status |-> StatusOK, written |-> FALSE,
     contentType |-> "", body |-> <<>>]

\* c.GetHeader(key): "" when the header is not present
GetHeader(c) == IF c.reqHeader = NoHeader THEN "" ELSE c.reqHeader

\* responseWriter.WriteHeader, which c.Status(code) calls: the code is
\* recorded unless the headers were already written
WriteHeader(c, code) ==
    IF code > 0 /\ c.status # code /\ ~c.written
    THEN [c EXCEPT !.status = code]
    ELSE c

\* responseWriter.Write: sends the headers, then the bytes
Write(c, bytes) == [c EXCEPT !.written = TRUE, !.body = @ \o bytes]

\* c.Data(code, contentType, data): c.Render sets the status to code, the
\* renderer sets Content-Type when none is set, then writes the bytes
Data(c, code, contentType, bytes) ==
    LET c1 == WriteHeader(c, code)
        c2 == IF c1.contentType = "" THEN [c1 EXCEPT !.contentType = contentType]
              ELSE c1
    IN Write(c2, bytes)

----------------------------------------------------------------------------
(* one RenderWithStatus call *)

Event(ev, name, code, data, out) ==
    [ev |-> ev, name |-> name, code |-> code, data |-> data, out |-> out]

Inputs(header, data, status, names) ==
    [header |-> header, data |-> data, status |-> status, names |-> names]

\* the frame on entry to RenderWithStatus
Entry(in) ==
    [pc |-> "L57", in |-> in, ctx |-> NewContext(in.header),
     data |-> in.data, callerData |-> in.data, aliased |-> TRUE,
     status |-> in.status, names |-> in.names, i |-> 1,
     isHTMX |-> FALSE, content |-> <<>>, trace |-> <<>>]

IdleState == [Entry(Inputs(NoHeader, EmptyH, StatusOK, <<>>)) EXCEPT !.pc = "idle"]

\* line 57: ginContext.Status(status)
SetStatus(s) ==
    [s EXCEPT !.pc = "L58",
              !.ctx = WriteHeader(s.ctx, s.status),
              !.trace = Append(@, Event("WriteHeader", "", s.status, s.data, <<>>))]

\* line 58: isHTMX := ginContext.GetHeader("HX-Request") != ""
ReadHxRequest(s) == [s EXCEPT !.pc = "L60", !.isHTMX = (GetHeader(s.ctx) # "")]

\* ModelDecorator.DecorateModel(ginContext, &data), for the decorators callers install
DecorateModel(dec, s) ==
    CASE dec = "AddMessage" ->
           [s EXCEPT !.data = Put(s.data, "Message", Plain(<<"<b>">>)),
                     !.callerData = Put(s.callerData, "Message", Plain(<<"<b>">>))]
      [] dec = "SetContent" ->
           LET m == Put(Put(s.data, "Content", Plain(<<"dec">>)),
                        "CustomBody", Plain(<<"dec">>))
           IN [s EXCEPT !.data = m, !.callerData = m]
      [] dec = "ToggleHxRequest" ->
           [s EXCEPT !.ctx.reqHeader = IF GetHeader(s.ctx) # "" THEN NoHeader ELSE "true"]
      [] dec = "ReplaceModel" ->
           [s EXCEPT !.data = Put(EmptyH, "Name", Plain(<<"Tom">>)), !.aliased = FALSE]

\* the decorator is never called
HasDecorator_never(h) == FALSE

\* line 60: the decorator is called when one is configured
HasDecorator(h) == h.config.ModelDecorator # NoDecorator

\* lines 60-62
Decorate(h, s) ==
    IF HasDecorator(h)
    THEN [DecorateModel(h.config.ModelDecorator, s) EXCEPT
             !.pc = "L66",
             !.trace = Append(@, Event("DecorateModel", h.config.ModelDecorator,
                                       0, s.data, <<>>))]
    ELSE [s EXCEPT !.pc = "L66"]

\* renderTemplateToString returning nothing for a template that failed
renderTemplateToString_dropsFailed(h, name, data) ==
    LET r == ExecuteTemplate(h.template, name, data)
    IN IF r.err THEN <<>> ELSE r.out

\* lines 88-95: the text the template wrote to the buffer; the error is dropped
renderTemplateToString(h, name, data) == ExecuteTemplate(h.template, name, data).out

\* the new output put in front of the content
AppendContent_prepend(content, out) == out \o content

\* line 67: content += ...
AppendContent(content, out) == content \o out

\* lines 66-68: one iteration of the loop, or leaving it
RenderNext(h, s) ==
    IF s.i > Len(s.names) THEN [s EXCEPT !.pc = "L70"]
    ELSE LET name == s.names[s.i]
             r == ExecuteTemplate(h.template, name, s.data)
             tr == Append(s.trace, Event("ExecuteTemplate", name, 0, s.data, r.out))
         IN IF r.panic THEN [s EXCEPT !.pc = "panicked", !.trace = tr]
            ELSE [s EXCEPT !.i = @ + 1,
                           !.content = AppendContent(@, renderTemplateToString(h, name, s.data)),
                           !.trace = tr]

\* the branch decided by reading the header again at line 70
FragmentBranch_rereadsHeader(s) == GetHeader(s.ctx) # ""

\* line 70: the branch taken
FragmentBranch(s) == s.isHTMX

\* the fragment written as text/plain
WriteFragment_textPlain(s) ==
    [s EXCEPT !.pc = "returned",
              !.ctx = Data(s.ctx, StatusOK, "text/plain; charset=utf-8", s.content),
              !.trace = @ \o << Event("WriteHeader", "", StatusOK, s.data, <<>>),
                                Event("Write", "", 0, s.data, s.content) >>]

\* line 71: ginContext.Data(http.StatusOK, "text/html; charset=utf-8", content)
WriteFragment(s) ==
    [s EXCEPT !.pc = "returned",
              !.ctx = Data(s.ctx, StatusOK, "text/html; charset=utf-8", s.content),
              !.trace = @ \o << Event("WriteHeader", "", StatusOK, s.data, <<>>),
                                Event("Write", "", 0, s.data, s.content) >>]

\* the content stored as a plain string, which the layout escapes
SetContentVariable_plainString(h, s) ==
    LET m == Put(s.data, h.config.ContentVariableName, Plain(s.content))
    IN [s EXCEPT !.pc = "L75", !.data = m,
                 !.callerData = IF s.aliased
                                THEN Put(@, h.config.ContentVariableName, Plain(s.content))
                                ELSE @]

\* line 74: data[ContentVariableName] = template.HTML(content)
SetContentVariable(h, s) ==
    LET m == Put(s.data, h.config.ContentVariableName, HTML(s.content))
    IN [s EXCEPT !.pc = "L75", !.data = m,
                 !.callerData = IF s.aliased
                                THEN Put(@, h.config.ContentVariableName, HTML(s.content))
                                ELSE @]

\* line 75: the layout is executed onto the response writer; the error is dropped
ExecuteLayout(h, s) ==
    LET r == ExecuteTemplate(h.template, h.config.LayoutTemplateName, s.data)
        tr == Append(s.trace, Event("ExecuteLayout", h.config.LayoutTemplateName,
                                    0, s.data, r.out))
    IN IF r.panic THEN [s EXCEPT !.pc = "panicked", !.trace = tr]
       ELSE IF r.out = <<>> THEN [s EXCEPT !.pc = "returned", !.trace = tr]
       ELSE [s EXCEPT !.pc = "returned", !.ctx = Write(s.ctx, r.out),
                      !.trace = Append(tr, Event("Write", "", 0, s.data, r.out))]

\* the statement at s.pc
Step(h, s) ==
    CASE s.pc = "L57" -> SetStatus(s)
      [] s.pc = "L58" -> ReadHxRequest(s)
      [] s.pc = "L60" -> Decorate(h, s)
      [] s.pc = "L66" -> RenderNext(h, s)
      [] s.pc = "L70" -> IF FragmentBranch(s) THEN WriteFragment(s)
                         ELSE SetContentVariable(h, s)
      [] s.pc = "L75" -> ExecuteLayout(h, s)
      [] OTHER -> s

Ended(s) == s.pc \in {"returned", "panicked"}

\* the whole call, from a frame to its end
RECURSIVE RunToEnd(_, _)
RunToEnd(h, s) == IF Ended(s) \/ s.pc = "idle" THEN s ELSE RunToEnd(h, Step(h, s))

----------------------------------------------------------------------------
(* the state machine *)

RECURSIVE SeqsUpTo(_, _)
SeqsUpTo(S, n) ==
    IF n = 0 THEN {<<>>}
    ELSE LET shorter == SeqsUpTo(S, n - 1)
         IN shorter \cup {Append(q, x) : q \in shorter, x \in S}

NameLists == SeqsUpTo(TemplateNames, MaxNames)

\* the handlers that may be inside a render call at the same time
CallIds == 1..NumCalls

NoCalls == [c \in CallIds |-> IdleState]

Init ==
    /\ \E t \in TemplateRefs :
         \/ htmx = NewHtmx(t) /\ builtBy = "NewHtmx"
         \/ \E c \in Configs :
              htmx = NewHtmxWithConfig(t, c) /\ builtBy = "NewHtmxWithConfig"
    /\ st = IdleState
    /\ calls = NoCalls

\* the handler makes one render call at a time on its context
CanCall == st.pc = "idle"

\* line 84: Render(c, data, templateNames...)
Render ==
    /\ CanCall
    /\ \E hd \in HeaderValues, d \in Models, ns \in NameLists :
         st' = Entry(Inputs(hd, d, StatusOK, ns))
    /\ UNCHANGED <<htmx, builtBy, calls>>

\* line 56: RenderWithStatus(ginContext, data, status, templateNames...)
RenderWithStatus ==
    /\ CanCall
    /\ \E hd \in HeaderValues, d \in Models, code \in Statuses, ns \in NameLists :
         st' = Entry(Inputs(hd, d, code, ns))
    /\ UNCHANGED <<htmx, builtBy, calls>>

StatusStep ==
    /\ st.pc = "L57"
    /\ st' = SetStatus(st)
    /\ UNCHANGED <<htmx, builtBy, calls>>

HeaderStep ==
    /\ st.pc = "L58"
    /\ st' = ReadHxRequest(st)
    /\ UNCHANGED <<htmx, builtBy, calls>>

DecorateStep ==
    /\ st.pc = "L60"
    /\ st' = Decorate(htmx, st)
    /\ UNCHANGED <<htmx, builtBy, calls>>

ContentStep ==
    /\ st.pc = "L66"
    /\ st' = RenderNext(htmx, st)
    /\ UNCHANGED <<htmx, builtBy, calls>>

FragmentStep ==
    /\ st.pc = "L70"
    /\ FragmentBranch(st)
    /\ st' = WriteFragment(st)
    /\ UNCHANGED <<htmx, builtBy, calls>>

ContentVariableStep ==
    /\ st.pc = "L70"
    /\ ~FragmentBranch(st)
    /\ st' = SetContentVariable(htmx, st)
    /\ UNCHANGED <<htmx, builtBy, calls>>

LayoutStep ==
    /\ st.pc = "L75"
    /\ st' = ExecuteLayout(htmx, st)
    /\ UNCHANGED <<htmx, builtBy, calls>>

\* line 77: the call returns to the handler
Return ==
    /\ st.pc = "returned"
    /\ st' = IdleState
    /\ UNCHANGED <<htmx, builtBy, calls>>

\* a panic of the template engine unwinds the call; the renderer stays in use
Unwind ==
    /\ st.pc = "panicked"
    /\ st' = IdleState
    /\ UNCHANGED <<htmx, builtBy, calls>>

Next ==
    \/ Render
    \/ RenderWithStatus
    \/ StatusStep
    \/ HeaderStep
    \/ DecorateStep
    \/ ContentStep
    \/ FragmentStep
    \/ ContentVariableStep
    \/ LayoutStep
    \/ Return
    \/ Unwind

Spec == Init /\ [][Next]_vars

TypeOK ==
    /\ htmx \in {NewHtmxWithConfig(t, c) : t \in TemplateRefs, c \in Configs}
    /\ builtBy \in {"NewHtmx", "NewHtmxWithConfig"}
    /\ st.pc \in {"idle", "L57", "L58", "L60", "L66", "L70", "L75", "returned", "panicked"}
    /\ st.i \in 1..(Len(st.names) + 1)

----------------------------------------------------------------------------
(* properties of a render call *)

EventsOf(s, kinds) == SelectSeq(s.trace, LAMBDA e : e.ev \in kinds)

NamesOf(events) == [k \in 1..Len(events) |-> events[k].name]

IsFragmentRequest(in) == in.header \notin {NoHeader, ""}

\* the model the templates of a call are to see: the caller's model after
\* the configured decorator, if any, has run on it
DecoratedModel(h, in) ==
    IF h.config.ModelDecorator = NoDecorator THEN in.data
    ELSE DecorateModel(h.config.ModelDecorator, Entry(in)).data

\* execute(n1, model) + ... + execute(nk, model)
RECURSIVE ConcatOutputs(_, _, _)
ConcatOutputs(t, names, data) ==
    IF names = <<>> THEN <<>>
    ELSE ExecuteTemplate(t, Head(names), data).out \o ConcatOutputs(t, Tail(names), data)

\* C1: when a render call has returned, the status recorded on the response
\* is the status the caller passed, in the fragment and the full-page branch
\* and whatever the template executions did.
C1_StatusIsArgument ==
    (htmx.template # NilTemplate /\ st.pc = "returned")
        => st.ctx.status = st.in.status

C3_LayoutWrap ==
    (st.pc = "returned" /\ ~IsFragmentRequest(st.in))
        => LET layouts == EventsOf(st, {"ExecuteLayout"})
               key == htmx.config.ContentVariableName
               content == ConcatOutputs(htmx.template, st.in.names,
                                        DecoratedModel(htmx, st.in))
           IN /\ Len(layouts) = 1
              /\ layouts[1].name = htmx.config.LayoutTemplateName
              /\ key \in DOMAIN layouts[1].data
              /\ layouts[1].data[key] = [raw |-> TRUE, s |-> content]
              /\ \A k \in DOMAIN layouts[1].data :
                   k # key => /\ k \in DOMAIN DecoratedModel(htmx, st.in)
                              /\ layouts[1].data[k] = DecoratedModel(htmx, st.in)[k]
              /\ st.ctx.body = ExecuteTemplate(htmx.template,
                                   htmx.config.LayoutTemplateName, layouts[1].data).out

C3_Witness ==
    /\ st.pc = "returned"
    /\ st.in.header = NoHeader
    /\ htmx.config.LayoutTemplateName = "layout"
    /\ htmx.config.ContentVariableName = "Content"
    /\ "Content" \in DOMAIN st.in.data
    /\ st.in.names = <<"hello">>
    /\ st.ctx.body = << "<div>", "Menu", "</div>",
                        "<div>", "<h1>", "Hello, ", "Jerry", "</h1>", "</div>",
                        "<div>", "Footer", "</div>" >>

\* C4: once the loop over the names is over, the content is the outputs of
\* the named templates concatenated in the order given, one execution per
\* occurrence of a name and each against the same decorated model; with no
\* names the content is empty and the call does not panic, in both branches.
C4_ConcatenationOrder ==
    (htmx.template # NilTemplate /\ st.pc \in {"L70", "L75", "returned", "panicked"})
        => LET execs == EventsOf(st, {"ExecuteTemplate"})
           IN /\ st.content = ConcatOutputs(htmx.template, st.in.names,
                                            DecoratedModel(htmx, st.in))
              /\ NamesOf(execs) = st.in.names
              /\ \A k \in 1..Len(execs) : execs[k].data = DecoratedModel(htmx, st.in)
              /\ st.in.names = <<>> => st.content = <<>>
              /\ st.pc # "panicked"

C4_Witness ==
    /\ st.pc = "returned"
    /\ st.in.names = <<"hello", "broken">>
    /\ st.content = << "<h1>", "Hello, ", "Jerry", "</h1>", "<p>" >>
    /\ htmx.template # NilTemplate

C4_WitnessNoNames ==
    /\ st.pc = "returned"
    /\ st.in.names = <<>>
    /\ ~IsFragmentRequest(st.in)
    /\ htmx.template # NilTemplate

\* position of the first event of the trace whose kind is in kinds; 0 if none
FirstIndex(s, kinds) ==
    LET idx == {k \in 1..Len(s.trace) : s.trace[k].ev \in kinds}
    IN IF idx = {} THEN 0 ELSE CHOOSE k \in idx : \A j \in idx : k <= j

PastDecorator(s) == s.pc \in {"L66", "L70", "L75", "returned", "panicked"}

\* C5: with a decorator configured, a call invokes DecorateModel exactly
\* once, after the status write of line 57 and before any template
\* execution, in both branches, and every template executed in the call
\* (content templates and layout) is executed against the model as the
\* decorator left it; without a decorator DecorateModel is never invoked.
C5_DecoratorOnceBeforeRendering ==
    LET dec == htmx.config.ModelDecorator
        decorations == EventsOf(st, {"DecorateModel"})
        at == FirstIndex(st, {"DecorateModel"})
        seen == IF dec = NoDecorator THEN st.in.data
                ELSE DecorateModel(dec, Entry(st.in)).data
    IN /\ dec = NoDecorator => decorations = <<>>
       /\ (dec # NoDecorator /\ PastDecorator(st))
            => /\ Len(decorations) = 1
               /\ decorations[1].name = dec
               /\ FirstIndex(st, {"WriteHeader"}) \in 1..(at - 1)
               /\ \A k \in 1..Len(st.trace) :
                    st.trace[k].ev \in {"ExecuteTemplate", "ExecuteLayout"} => at < k
       /\ (dec # NoDecorator /\ ~PastDecorator(st)) => Len(st.trace) <= 1
       /\ \A k \in 1..Len(st.trace) :
            /\ st.trace[k].ev = "ExecuteTemplate" => st.trace[k].data = seen
            /\ st.trace[k].ev = "ExecuteLayout"
                 => \A x \in DOMAIN seen :
                      x # htmx.config.ContentVariableName
                        => /\ x \in DOMAIN st.trace[k].data
                           /\ st.trace[k].data[x] = seen[x]

C5_Witness ==
    /\ st.pc = "returned"
    /\ htmx.config.ModelDecorator = "AddMessage"
    /\ htmx.config.LayoutTemplateName = "customlayout"
    /\ htmx.config.ContentVariableName = "CustomBody"
    /\ st.in.header = ""
    /\ st.in.names = <<"error">>
    /\ "Message" \notin DOMAIN st.in.data
    /\ st.ctx.body = << "<div>", "Menu", "</div>",
                        "<div>", "<div>", "&lt;b&gt;", "</div>", "</div>",
                        "<div>", "Footer", "</div>" >>

\* the branch a call took, once it is past line 70
BranchTaken(s) ==
    IF s.pc = "L75" \/ EventsOf(s, {"ExecuteLayout"}) # <<>> THEN "page" ELSE "fragment"

\* C6: the branch a call takes is the one the HX-Request header of the
\* request selected when the call started (non-empty: fragment, absent or
\* empty: full page), whatever the decorator did to the request headers or
\* the model and whether or not a template failed.
C6_ModeDecidedOnce ==
    /\ st.pc \in {"L60", "L66", "L70"} => st.isHTMX = IsFragmentRequest(st.in)
    /\ (st.pc \in {"L75", "returned"} \/ (st.pc = "panicked" /\ st.i > Len(st.names)))
         => BranchTaken(st) = IF IsFragmentRequest(st.in) THEN "fragment" ELSE "page"

C6_Witness ==
    /\ st.pc = "returned"
    /\ htmx.config.ModelDecorator = "ToggleHxRequest"
    /\ st.in.header = "true"
    /\ st.ctx.reqHeader = NoHeader
    /\ st.in.names = <<"broken", "missing">>
    /\ st.ctx.contentType = "text/html; charset=utf-8"
    /\ st.ctx.body = << "<p>" >>

\* what a content template leaves in the buffer when it fails
PartialOutput(name, data) ==
    CASE name = "broken" -> << "<p>" >>
      [] name = "missing" -> <<>>
      [] OTHER -> ExecuteTemplate(ParsedTemplate, name, data).out

RECURSIVE ConcatPartial(_, _)
ConcatPartial(names, data) ==
    IF names = <<>> THEN <<>>
    ELSE PartialOutput(Head(names), data) \o ConcatPartial(Tail(names), data)

Fails(name) == name \in {"broken", "missing"}

\* C7: a content template that is not defined or fails while executing does
\* not end the call: the call never panics and goes on to its next
\* statement, the failing template contributes what it had written before
\* failing, every later name is executed, and the body is written (the
\* fragment, or the layout executed on the content).
C7_ContentFailureDiscarded ==
    (htmx.template # NilTemplate /\ \E k \in 1..Len(st.in.names) : Fails(st.in.names[k]))
        => /\ st.pc # "panicked"
           /\ st.pc \in {"L57", "L58", "L60", "L66", "L70", "L75"} => Step(htmx, st) # st
           /\ st.pc \in {"L70", "L75", "returned"}
                => /\ NamesOf(EventsOf(st, {"ExecuteTemplate"})) = st.in.names
                   /\ st.content = ConcatPartial(st.in.names, DecoratedModel(htmx, st.in))
           /\ st.pc = "returned"
                => IF IsFragmentRequest(st.in)
                   THEN /\ st.ctx.written
                        /\ st.ctx.body = ConcatPartial(st.in.names, DecoratedModel(htmx, st.in))
                   ELSE LET layouts == EventsOf(st, {"ExecuteLayout"})
                            key == htmx.config.ContentVariableName
                        IN /\ Len(layouts) = 1
                           /\ layouts[1].data[key].s =
                                ConcatPartial(st.in.names, DecoratedModel(htmx, st.in))
                           /\ st.ctx.body = layouts[1].out

C7_Witness ==
    /\ st.pc = "returned"
    /\ htmx.template # NilTemplate
    /\ st.in.names = <<"broken", "hello">>
    /\ st.in.header = "true"
    /\ st.ctx.written
    /\ st.ctx.body = << "<p>", "<h1>", "Hello, ", "Jerry", "</h1>" >>

C7_WitnessLayout ==
    /\ st.pc = "returned"
    /\ htmx.template # NilTemplate
    /\ st.in.names = <<"missing", "broken">>
    /\ st.in.header = NoHeader
    /\ htmx.config.LayoutTemplateName = "layout"
    /\ htmx.config.ContentVariableName = "Content"
    /\ st.ctx.body = << "<div>", "Menu", "</div>", "<div>", "<p>", "</div>",
                        "<div>", "Footer", "</div>" >>

\* C8: a call that has returned has made exactly one status write and
\* exactly one body write, in both branches and whatever the templates did,
\* an undefined layout name included.
C8_OneStatusWriteOneBodyWrite ==
    (htmx.template # NilTemplate /\ st.pc = "returned")
        => /\ Len(EventsOf(st, {"WriteHeader"})) = 1
           /\ Len(EventsOf(st, {"Write"})) = 1

\* C9: a call on a renderer built by NewHtmx(t) ends in the state (status,
\* body, final model, and everything else of the call) in which the same
\* call ends on NewHtmxWithConfig(t, {"layout", "Content", nil}).
C9_DefaultConfiguration ==
    (builtBy = "NewHtmx" /\ Ended(st))
        => st = RunToEnd(NewHtmxWithConfig(htmx.template,
                            [LayoutTemplateName |-> "layout",
                             ContentVariableName |-> "Content",
                             ModelDecorator |-> NoDecorator]),
                         Entry(st.in))

C9_Witness ==
    /\ builtBy = "NewHtmx"
    /\ htmx.template # NilTemplate
    /\ st.pc = "returned"
    /\ st.in.header = NoHeader
    /\ st.in.status = 404
    /\ st.in.names = <<"hello">>
    /\ st.ctx.status = 404
    /\ st.callerData["Content"] = [raw |-> TRUE, s |-> st.content]
    /\ st.ctx.body = << "<div>", "Menu", "</div>",
                        "<div>", "<h1>", "Hello, ", "&lt;b&gt;", "</h1>", "</div>",
                        "<div>", "Footer", "</div>" >>

\* C10: a renderer built with a nil template set is never a usable
\* renderer: no render call on it returns normally.
C10_NilTemplateRejected ==
    htmx.template = NilTemplate => st.pc # "returned"

----------------------------------------------------------------------------
(* render calls made concurrently on one renderer *)

\* the renderers the concurrent handlers share
SharedRenderers ==
    { NewHtmx(ParsedTemplate),
      NewHtmx(NilTemplate),
      NewHtmxWithConfig(ParsedTemplate, HtmxConfig("customlayout", "CustomBody", "AddMessage")),
      NewHtmxWithConfig(ParsedTemplate, HtmxConfig("layout", "Content", "ToggleHxRequest")) }

\* the calls the concurrent handlers make, each with its own context and model
ConcurrentInputs ==
    { Inputs(NoHeader, Put(EmptyH, "Name", Plain(<<"Jerry">>)), StatusOK, <<"hello">>),
      Inputs("true", Put(EmptyH, "Name", Plain(<<"Jerry">>)), 404, <<"hello", "error">>),
      Inputs(NoHeader, Put(EmptyH, "Name", Plain(<<"<b>">>)), 404, <<"broken", "hello">>),
      Inputs("true", EmptyH, StatusOK, <<>>),
      Inputs("", Put(EmptyH, "Content", Plain(<<"old">>)), StatusOK, <<"error", "missing">>) }

\* a copy of the renderer that also keeps the content being built, which
\* every call on it then reads and writes
SharedStep_contentInRenderer(h, s) ==
    LET base == [template |-> h.template, config |-> h.config]
        kept == IF "content" \in DOMAIN h THEN h.content ELSE <<>>
        keep(c) == [template |-> h.template, config |-> h.config, content |-> c]
    IN CASE s.pc = "L57" -> [h |-> keep(<<>>), s |-> Step(base, s)]
         [] s.pc = "L66" -> LET s2 == Step(base, [s EXCEPT !.content = kept])
                            IN [h |-> keep(s2.content), s |-> s2]
         [] OTHER -> [h |-> h, s |-> Step(base, s)]

\* lines 56-95: a statement of a call run on the shared renderer reads
\* htmx.config and htmx.template and assigns neither; everything it writes
\* is in the call's own frame, model and context
SharedStep(h, s) == [h |-> h, s |-> Step(h, s)]

InitConcurrent ==
    /\ \E h \in SharedRenderers :
         /\ htmx = h
         /\ builtBy = IF h.config = NewHtmx(h.template).config
                      THEN "NewHtmx" ELSE "NewHtmxWithConfig"
    /\ st = IdleState
    /\ calls = NoCalls

\* the statement at the pc of call c, when that pc is one of pcs
StatementOf(c, pcs) ==
    /\ calls[c].pc \in pcs
    /\ LET r == SharedStep(htmx, calls[c])
       IN /\ htmx' = r.h
          /\ calls' = [calls EXCEPT ![c] = r.s]
    /\ UNCHANGED <<builtBy, st>>

\* line 56: a handler enters RenderWithStatus
ConcurrentRender(c) ==
    /\ calls[c].pc = "idle"
    /\ \E in \in ConcurrentInputs : calls' = [calls EXCEPT ![c] = Entry(in)]
    /\ UNCHANGED <<htmx, builtBy, st>>

ConcurrentStatusStep(c) == StatementOf(c, {"L57"})

ConcurrentHeaderStep(c) == StatementOf(c, {"L58"})

ConcurrentDecorateStep(c) == StatementOf(c, {"L60"})

ConcurrentContentStep(c) == StatementOf(c, {"L66"})

ConcurrentFragmentStep(c) == FragmentBranch(calls[c]) /\ StatementOf(c, {"L70"})

ConcurrentContentVariableStep(c) == ~FragmentBranch(calls[c]) /\ StatementOf(c, {"L70"})

ConcurrentLayoutStep(c) == StatementOf(c, {"L75"})

\* line 77, or the panic unwinding: the handler is done with the call
ConcurrentReturn(c) ==
    /\ Ended(calls[c])
    /\ calls' = [calls EXCEPT ![c] = IdleState]
    /\ UNCHANGED <<htmx, builtBy, st>>

NextConcurrent ==
    \/ \E c \in CallIds : ConcurrentRender(c)
    \/ \E c \in CallIds : ConcurrentStatusStep(c)
    \/ \E c \in CallIds : ConcurrentHeaderStep(c)
    \/ \E c \in CallIds : ConcurrentDecorateStep(c)
    \/ \E c \in CallIds : ConcurrentContentStep(c)
    \/ \E c \in CallIds : ConcurrentFragmentStep(c)
    \/ \E c \in CallIds : ConcurrentContentVariableStep(c)
    \/ \E c \in CallIds : ConcurrentLayoutStep(c)
    \/ \E c \in CallIds : ConcurrentReturn(c)

SpecConcurrent == InitConcurrent /\ [][NextConcurrent]_vars

\* every call that has ended ended as it does when it is the only call
SameAsAlone ==
    \A c \in CallIds :
        Ended(calls[c])
            => LET alone == RunToEnd([template |-> htmx.template, config |-> htmx.config],
                                     Entry(calls[c].in))
               IN /\ calls[c].pc = alone.pc
                  /\ calls[c].ctx.status = alone.ctx.status
                  /\ calls[c].ctx.body = alone.ctx.body
                  /\ calls[c].ctx.contentType = alone.ctx.contentType
                  /\ calls[c].data = alone.data
                  /\ calls[c].callerData = alone.callerData

\* C11: whatever the interleaving of the statements of render calls made
\* concurrently on one renderer, each on its own model and context, a call
\* ends with the status, body and final model it ends with when run alone,
\* and no step changes the renderer's configuration or its template set.
C11_ConcurrentCallsIndependent ==
    /\ []SameAsAlone
    /\ [][htmx' = htmx]_vars

\* two calls have run interleaved to their ends on the same renderer, one in
\* each branch
C11_Witness ==
    /\ htmx.template # NilTemplate
    /\ htmx.config.ModelDecorator = "AddMessage"
    /\ calls[1].pc = "returned"
    /\ calls[2].pc = "returned"
    /\ calls[1].in.names = <<"hello", "error">>
    /\ calls[2].in.names = <<"broken", "hello">>
    /\ calls[1].trace[Len(calls[1].trace)].ev = "Write"
    /\ calls[1].ctx.body = << "<h1>", "Hello, ", "Jerry", "</h1>",
                              "<div>", "&lt;b&gt;", "</div>" >>
    /\ calls[2].ctx.body = << "<div>", "Menu", "</div>",
                              "<div>", "<p>", "<h1>", "Hello, ", "&lt;b&gt;", "</h1>", "</div>",
                              "<div>", "Footer", "</div>" >>

====
